---- MODULE Spec2Model ----
(***************************************************************************)
(* Model of src/app.py: the claims console's session state (claims_db,     *)
(* active_claim_id, next_idx, customer_msg, send_status), the text         *)
(* generation client call_groq, the four-agent pipeline, the priority      *)
(* extractor, the record store operations and the button handlers of the   *)
(* Workspace and History tabs.                                             *)
(*                                                                         *)
(* Text is a sequence of one-character strings, so that str.strip(),       *)
(* str.lower() and the substring test `in` are computed, not assumed.      *)
(* claims_db is a Python dict: it is modelled as the sequence of its       *)
(* values in insertion order (an assignment to an existing key keeps the   *)
(* key's position, del removes it).                                        *)
(* The pass-through form fields (customer_contact, type, channel,          *)
(* car_model, overview, created_at) are copied into the record and never   *)
(* read by any decision of the code; they are left out of the record.      *)
(***************************************************************************)
EXTENDS Integers, Sequences, FiniteSets

VARIABLES
    claims_db,        \* st.session_state.claims_db, values in insertion order
    active_claim_id,  \* st.session_state.active_claim_id (None or a claim id)
    next_idx,         \* st.session_state.next_idx
    customer_msg,     \* st.session_state.customer_msg
    send_status,      \* st.session_state.send_status
    issued,           \* history: every created_idx handed out so far
    ui                \* what the last script run did and showed to the user

vars == <<claims_db, active_claim_id, next_idx, customer_msg, send_status, issued, ui>>

----------------------------------------------------------------------------
(* Bounds *)

\* the submit handler is not taken once next_idx has reached this value
MaxIdx == 3
\* the same cap in the history specification (three claim ids)
MaxHistIdx == 4
\* the same cap in the priority specification (one claim id)
MaxPrioIdx == 1
\* a triage text of the priority specification is at most this many tokens
MaxTokens == 2

----------------------------------------------------------------------------
(* Text *)

None == "None"

EmptyText == << >>

\* the characters str.strip() removes that occur in the model
IsSpace(c) == c \in {" ", "\n"}

RECURSIVE LStrip(_)
LStrip(s) == IF s # << >> /\ IsSpace(Head(s)) THEN LStrip(Tail(s)) ELSE s

RECURSIVE RStrip(_)
RStrip(s) ==
    IF s # << >> /\ IsSpace(s[Len(s)]) THEN RStrip(SubSeq(s, 1, Len(s) - 1)) ELSE s

\* a variant of strip() that removes nothing
StripNothing(s) == s

\* str.strip()
Strip(s) == RStrip(LStrip(s))

\* str.lower() on one character
LowerChar(c) ==
    CASE c = "H" -> "h" [] c = "I" -> "i" [] c = "G" -> "g"
      [] c = "M" -> "m" [] c = "E" -> "e" [] c = "D" -> "d" [] c = "U" -> "u"
      [] c = "L" -> "l" [] c = "O" -> "o" [] c = "W" -> "w" [] c = "N" -> "n"
      [] OTHER -> c

\* str.lower()
Lower(s) == [i \in 1..Len(s) |-> LowerChar(s[i])]

\* pat in txt
Contains(txt, pat) ==
    \E i \in 1..(Len(txt) - Len(pat) + 1) : SubSeq(txt, i, i + Len(pat) - 1) = pat

RECURSIVE Join(_)
\* "".join(parts)
Join(parts) == IF parts = << >> THEN << >> ELSE Head(parts) \o Join(Tail(parts))

----------------------------------------------------------------------------
(* Text-generation client *)

\* What the provider does on one chat.completions.create call: it raises, or
\* it returns a message whose content is None, a string, or a list of parts.
Raise == [kind |-> "raise"]
NoContent == [kind |-> "none"]
Str(t) == [kind |-> "str", text |-> t]
Parts(ps) == [kind |-> "parts", parts |-> ps]

NonEmptyPart(t) == t # << >>

\* the value of `content` before str(content).strip()
ContentText(resp) ==
    CASE resp.kind = "none" -> <<"N", "o", "n", "e">>
      [] resp.kind = "str" -> resp.text
      [] resp.kind = "parts" -> Join(SelectSeq(resp.parts, NonEmptyPart))

\* call_groq: the exception of the client propagates; otherwise the stripped text
call_groq(resp) ==
    IF resp.kind = "raise"
    THEN [raised |-> TRUE, text |-> EmptyText]
    ELSE [raised |-> FALSE, text |-> Strip(ContentText(resp))]

----------------------------------------------------------------------------
(* Pipeline and priority *)

\* the order in which run_claim_pipeline_groq calls the agents; each agent
\* (triage_agent_groq, ...) formats its prompt and returns call_groq's result
\* as it is, so an agent call is call_groq on the provider's answer
Stages == <<"triage", "damage", "evidence", "settlement">>

StageSet == {Stages[i] : i \in 1..Len(Stages)}

Min(S) == CHOOSE x \in S : \A y \in S : x <= y

\* a variant of the pipeline that catches an agent's exception and goes on
\* with an empty text
run_claim_pipeline_swallow(resps) ==
    [raised |-> FALSE, calls |-> Len(Stages), stage |-> None,
     triage |-> call_groq(resps.triage).text,
     damage |-> call_groq(resps.damage).text,
     evidence |-> call_groq(resps.evidence).text,
     settlement |-> call_groq(resps.settlement).text]

\* run_claim_pipeline_groq: four sequential agent calls; the first exception
\* aborts the run (calls counts the agent calls made)
run_claim_pipeline_groq(resps) ==
    LET out == [s \in StageSet |-> call_groq(resps[s])]
        failing == {i \in 1..Len(Stages) : out[Stages[i]].raised}
    IN  IF failing = {}
        THEN [raised |-> FALSE, calls |-> Len(Stages), stage |-> None,
              triage |-> out.triage.text, damage |-> out.damage.text,
              evidence |-> out.evidence.text, settlement |-> out.settlement.text]
        ELSE [raised |-> TRUE, calls |-> Min(failing), stage |-> Stages[Min(failing)],
              triage |-> EmptyText, damage |-> EmptyText,
              evidence |-> EmptyText, settlement |-> EmptyText]

kw_high == <<"h", "i", "g", "h">>
kw_medium == <<"m", "e", "d", "i", "u", "m">>
kw_low == <<"l", "o", "w">>

\* a variant of the extractor that tests the keywords in the order low, medium, high
extract_priority_label_low_first(triage_md) ==
    LET txt == Lower(triage_md)
    IN  IF Contains(txt, kw_low) THEN "LOW"
        ELSE IF Contains(txt, kw_medium) THEN "MEDIUM"
        ELSE IF Contains(txt, kw_high) THEN "HIGH"
        ELSE "UNSPECIFIED"

\* extract_priority_label
extract_priority_label(triage_md) ==
    LET txt == Lower(triage_md)
    IN  IF Contains(txt, kw_high) THEN "HIGH"
        ELSE IF Contains(txt, kw_medium) THEN "MEDIUM"
        ELSE IF Contains(txt, kw_low) THEN "LOW"
        ELSE "UNSPECIFIED"

----------------------------------------------------------------------------
(* The record store: claims_db as an insertion-ordered dict *)

Keys(db) == {db[i].id : i \in 1..Len(db)}

Records(db) == {db[i] : i \in 1..Len(db)}

\* db[key], for key in db
DictGet(db, key) == db[CHOOSE i \in 1..Len(db) : db[i].id = key]

\* db[key] = rec: an existing key keeps its position, a new key goes last
DictSet(db, key, rec) ==
    IF key \in Keys(db)
    THEN [i \in 1..Len(db) |-> IF db[i].id = key THEN rec ELSE db[i]]
    ELSE Append(db, rec)

\* del db[key], for key in db
DictDel(db, key) ==
    LET keep(r) == r.id # key IN SelectSeq(db, keep)

\* a variant of record creation that numbers a record by the size of the store
save_claim_record_count_idx(db, idx, claim_id, customer_name, description, pipeline_result, status) ==
    [idx |-> Len(db) + 1,
     db |-> DictSet(db, claim_id,
                [id |-> claim_id, customer_name |-> customer_name,
                 description |-> description, status |-> status,
                 priority |-> extract_priority_label(pipeline_result.triage),
                 triage |-> pipeline_result.triage, damage |-> pipeline_result.damage,
                 evidence |-> pipeline_result.evidence,
                 settlement |-> pipeline_result.settlement,
                 created_idx |-> Len(db) + 1])]

\* a variant of record creation that keeps the record already stored under the id
save_claim_record_keep_first(db, idx, claim_id, customer_name, description, pipeline_result, status) ==
    [idx |-> idx + 1,
     db |-> IF claim_id \in Keys(db) THEN db
            ELSE DictSet(db, claim_id,
                [id |-> claim_id, customer_name |-> customer_name,
                 description |-> description, status |-> status,
                 priority |-> extract_priority_label(pipeline_result.triage),
                 triage |-> pipeline_result.triage, damage |-> pipeline_result.damage,
                 evidence |-> pipeline_result.evidence,
                 settlement |-> pipeline_result.settlement,
                 created_idx |-> idx + 1])]

\* save_claim_record: the new value of next_idx and of claims_db
save_claim_record(db, idx, claim_id, customer_name, description, pipeline_result, status) ==
    [idx |-> idx + 1,
     db |-> DictSet(db, claim_id,
                [id |-> claim_id, customer_name |-> customer_name,
                 description |-> description, status |-> status,
                 priority |-> extract_priority_label(pipeline_result.triage),
                 triage |-> pipeline_result.triage, damage |-> pipeline_result.damage,
                 evidence |-> pipeline_result.evidence,
                 settlement |-> pipeline_result.settlement,
                 created_idx |-> idx + 1])]

\* sorted(): a stable insertion of r into a list that is in descending key order
InsertDesc(sorted, r) ==
    LET before == {i \in 1..Len(sorted) : sorted[i].created_idx >= r.created_idx}
        k == Cardinality(before)
    IN  SubSeq(sorted, 1, k) \o <<r>> \o SubSeq(sorted, k + 1, Len(sorted))

RECURSIVE SortedDesc(_)
SortedDesc(values) ==
    IF values = << >> THEN << >>
    ELSE InsertDesc(SortedDesc(SubSeq(values, 1, Len(values) - 1)), values[Len(values)])

\* a variant of the listing that returns the dict's values unsorted
get_sorted_claims_unsorted(db) == db

\* get_sorted_claims: the values ordered by created_idx, highest first
get_sorted_claims(db) == SortedDesc(db)

\* the choices of the "Filter by priority" select box
PriorityFilters == {"All", "High", "Medium", "Low"}

\* str.upper() on the four choices of the filter
Upper(filter) ==
    CASE filter = "High" -> "HIGH" [] filter = "Medium" -> "MEDIUM"
      [] filter = "Low" -> "LOW" [] OTHER -> "ALL"

\* render_history: the claims for which a card with its buttons is drawn
render_history(db, priority_filter) ==
    LET shown(c) == priority_filter = "All" \/ c.priority = Upper(priority_filter)
    IN  SelectSeq(get_sorted_claims(db), shown)

----------------------------------------------------------------------------
(* Inputs *)

\* what the user may type into the "Claim ID" field
ClaimIds == {"CLM-001", "CLM-002"}

\* what the user may type into "Customer name": empty, blank, a name
Names == {<< >>, <<" ">>, <<"A", " ">>}

\* what the user may type into the description: empty, blank, a text
Descriptions == {<< >>, <<"\n", " ">>, <<"d">>}

T_ok == <<"o", "k">>
T_high == <<" ", "H", "i", "g", "h", "\n">>
T_low == <<"l", "o", "w">>
T_msg == <<" ", "m", "s", "g">>

\* the form values and provider answers a submission was given
FormInput(customer_name, description, resps) ==
    [customer_name |-> customer_name, description |-> description, resps |-> resps]

AllOk(triage) ==
    [triage |-> Str(triage), damage |-> Str(T_ok),
     evidence |-> Str(T_ok), settlement |-> Parts(<<T_ok>>)]

\* the provider's answers to the four agent calls of one submission: all
\* usable, one call raising, or a call answered without usable text
PipelineResponses ==
    {AllOk(T_high),
     [AllOk(T_low) EXCEPT !.evidence = NoContent],
     [AllOk(T_high) EXCEPT !.triage = Raise],
     [AllOk(T_high) EXCEPT !.damage = Raise],
     [AllOk(T_high) EXCEPT !.evidence = Raise],
     [AllOk(T_high) EXCEPT !.settlement = Raise],
     [AllOk(T_high) EXCEPT !.damage = Raise, !.settlement = Raise],
     [AllOk(T_high) EXCEPT !.triage = Str(<< >>)],
     [AllOk(T_high) EXCEPT !.damage = Str(<<" ">>), !.settlement = Parts(<<EmptyText, EmptyText>>)]}

\* one submission: the form's name and description and the provider's
\* answers. A form that is filled in meets every answer of the provider; a
\* form with a missing field meets a usable and a failing provider.
SubmitInputs ==
    {FormInput(<<"A", " ">>, <<"d">>, resps) : resps \in PipelineResponses}
    \cup {FormInput(n, d, resps) :
            n \in Names, d \in Descriptions,
            resps \in {AllOk(T_high), [AllOk(T_high) EXCEPT !.triage = Raise]}}

\* the provider's answers to the customer-message call
MessageResponses == {Raise, Str(T_msg), Str(<<" ">>)}

----------------------------------------------------------------------------
(* Session state and handlers *)

\* the status a status button found on the open record
Found(status) == [status |-> status]

NoInput == [status |-> None]

\* what a script run reports: the handler, what it showed, the agent calls it
\* made, the claim id it was about and what it was given
Report(op, outcome, calls, target, input) ==
    [op |-> op, outcome |-> outcome, calls |-> calls, target |-> target, input |-> input]

\* init_state
Init ==
    /\ claims_db = << >>
    /\ active_claim_id = None
    /\ next_idx = 0
    /\ customer_msg = EmptyText
    /\ send_status = ""
    /\ issued = {}
    /\ ui = Report("init", "form", 0, None, NoInput)

\* a variant of the status assignment that writes every record of the store
SetStatusOfAll(db, cid, status) ==
    [i \in 1..Len(db) |-> [db[i] EXCEPT !.status = status]]

\* claim["status"] = status on the record stored under cid
SetStatus(db, cid, status) ==
    [i \in 1..Len(db) |-> IF db[i].id = cid THEN [db[i] EXCEPT !.status = status] ELSE db[i]]

\* main: "Analyze Claim" on the new-claim form
Submit(claim_id, customer_name, description, resps) ==
    /\ active_claim_id = None
    /\ LET given == FormInput(customer_name, description, resps) IN
       IF Strip(description) = << >> \/ Strip(customer_name) = << >>
       THEN /\ ui' = Report("submit", "error", 0, claim_id, given)
            /\ UNCHANGED <<claims_db, active_claim_id, next_idx, customer_msg,
                           send_status, issued>>
       ELSE \E pipeline_result \in {run_claim_pipeline_groq(resps)} :
            \E saved \in {save_claim_record(claims_db, next_idx, claim_id, customer_name,
                                            description, pipeline_result, "Reviewing")} :
                IF pipeline_result.raised
                THEN /\ ui' = Report("submit", "exception", pipeline_result.calls, claim_id, given)
                     /\ UNCHANGED <<claims_db, active_claim_id, next_idx, customer_msg,
                                    send_status, issued>>
                ELSE /\ claims_db' = saved.db
                     /\ next_idx' = saved.idx
                     /\ issued' = issued \cup {DictGet(saved.db, claim_id).created_idx}
                     /\ active_claim_id' = claim_id
                     /\ customer_msg' = EmptyText
                     /\ send_status' = ""
                     /\ ui' = Report("submit", "success", pipeline_result.calls, claim_id, given)

\* the claim ids whose card, with its Open and Delete buttons, is on the page
Listed(db) == UNION {Keys(render_history(db, f)) : f \in PriorityFilters}

\* render_history: the "Open" button of a card
Open(cid) ==
    /\ cid \in Listed(claims_db)
    /\ active_claim_id' = cid
    /\ customer_msg' = EmptyText
    /\ send_status' = ""
    /\ ui' = Report("open", "ok", 0, cid, NoInput)
    /\ UNCHANGED <<claims_db, next_idx, issued>>

\* render_history: the "Delete" button of a card
Delete(cid) ==
    /\ cid \in Listed(claims_db)
    /\ claims_db' = DictDel(claims_db, cid)
    /\ send_status' = ""
    /\ customer_msg' = EmptyText
    /\ ui' = Report("delete", "ok", 0, cid, NoInput)
    /\ UNCHANGED <<active_claim_id, next_idx, issued>>

\* render_claim_intelligence gets past its guard and draws the review panel
PanelShown == active_claim_id # None /\ active_claim_id # "" /\ active_claim_id \in Keys(claims_db)

\* main, Workspace tab, on a script run without a button: the form, the
\* review panel of claims_db[cid], or the notice of render_claim_intelligence
View ==
    /\ ui' = IF active_claim_id = None THEN Report("view", "form", 0, None, NoInput)
             ELSE IF PanelShown THEN Report("view", "panel", 0, active_claim_id, NoInput)
             ELSE Report("view", "info", 0, active_claim_id, NoInput)
    /\ UNCHANGED <<claims_db, active_claim_id, next_idx, customer_msg, send_status, issued>>

\* a variant of the save button that leaves the record's status as it is
SaveKeepingStatus ==
    /\ PanelShown
    /\ active_claim_id' = None
    /\ customer_msg' = EmptyText
    /\ send_status' = ""
    /\ ui' = Report("save", "success", 0, active_claim_id,
                   Found(DictGet(claims_db, active_claim_id).status))
    /\ UNCHANGED <<claims_db, next_idx, issued>>

\* render_claim_intelligence: "Save as Reviewing"
SaveAsReviewing ==
    /\ PanelShown
    /\ claims_db' = SetStatus(claims_db, active_claim_id, "Reviewing")
    /\ active_claim_id' = None
    /\ customer_msg' = EmptyText
    /\ send_status' = ""
    /\ ui' = Report("save", "success", 0, active_claim_id,
                   Found(DictGet(claims_db, active_claim_id).status))
    /\ UNCHANGED <<next_idx, issued>>

\* render_claim_intelligence: "Mark as Completed"
MarkCompleted ==
    /\ PanelShown
    /\ claims_db' = SetStatus(claims_db, active_claim_id, "Completed")
    /\ active_claim_id' = None
    /\ customer_msg' = EmptyText
    /\ send_status' = ""
    /\ ui' = Report("complete", "success", 0, active_claim_id,
                   Found(DictGet(claims_db, active_claim_id).status))
    /\ UNCHANGED <<next_idx, issued>>

\* render_claim_intelligence: "Start a New Claim"
StartNewClaim ==
    /\ PanelShown
    /\ active_claim_id' = None
    /\ customer_msg' = EmptyText
    /\ send_status' = ""
    /\ ui' = Report("new", "ok", 0, active_claim_id, NoInput)
    /\ UNCHANGED <<claims_db, next_idx, issued>>

\* render_claim_intelligence: "Generate customer message"
GenerateMessage(resp) ==
    /\ PanelShown
    /\ LET r == call_groq(resp)
       IN  IF r.raised
           THEN /\ ui' = Report("message", "exception", 1, active_claim_id, NoInput)
                /\ UNCHANGED <<customer_msg, send_status>>
           ELSE /\ customer_msg' = r.text
                /\ send_status' = ""
                /\ ui' = Report("message", "ok", 1, active_claim_id, NoInput)
    /\ UNCHANGED <<claims_db, active_claim_id, next_idx, issued>>

\* render_claim_intelligence: "Simulate send message", drawn under a draft
SimulateSend ==
    /\ PanelShown
    /\ customer_msg # EmptyText
    /\ send_status' = "sent"
    /\ ui' = Report("send", "ok", 0, active_claim_id, NoInput)
    /\ UNCHANGED <<claims_db, active_claim_id, next_idx, customer_msg, issued>>

Next ==
    \/ \E claim_id \in ClaimIds, given \in SubmitInputs :
            /\ next_idx < MaxIdx
            /\ Submit(claim_id, given.customer_name, given.description, given.resps)
    \/ \E cid \in ClaimIds : Open(cid)
    \/ \E cid \in ClaimIds : Delete(cid)
    \/ View
    \/ SaveAsReviewing
    \/ MarkCompleted
    \/ StartNewClaim
    \/ \E resp \in MessageResponses : GenerateMessage(resp)
    \/ SimulateSend

Spec == Init /\ [][Next]_vars

----------------------------------------------------------------------------
(* The history listing over three claim ids: creates, deletes and status   *)
(* changes with usable agent answers (and one failing run)                 *)

HistoryIds == {"CLM-001", "CLM-002", "CLM-003"}

HistoryResponses == {AllOk(T_high), [AllOk(T_low) EXCEPT !.settlement = Raise]}

NextHistory ==
    \/ \E claim_id \in HistoryIds, resps \in HistoryResponses :
            next_idx < MaxHistIdx /\ Submit(claim_id, <<"A", " ">>, <<"d">>, resps)
    \/ \E cid \in HistoryIds : Open(cid)
    \/ \E cid \in HistoryIds : Delete(cid)
    \/ MarkCompleted
    \/ StartNewClaim

SpecHistory == Init /\ [][NextHistory]_vars

----------------------------------------------------------------------------
(* The priority extractor on triage texts built from keyword fragments     *)

\* fragments of triage prose: the keywords in several letter cases, split
\* keywords, and filler
TriageTokens ==
    {<<"H", "i", "g", "h">>, <<"h", "i", "g">>, <<"H">>,
     <<"M", "E", "D", "I", "U", "M">>,
     <<"L", "o", "w">>, <<"l", "O">>, <<"W">>, <<"n", "o", "t", " ">>}

RECURSIVE TokenTexts(_)
\* the concatenations of exactly n fragments
TokenTexts(n) ==
    IF n = 0 THEN {<< >>}
    ELSE {t \o k : t \in TokenTexts(n - 1), k \in TriageTokens}

\* the triage agent's answers: up to MaxTokens fragments
TriageTexts == UNION {TokenTexts(n) : n \in 0..MaxTokens}

PriorityIds == {"CLM-001"}

NextPriority ==
    \/ \E claim_id \in PriorityIds, triage \in TriageTexts :
            next_idx < MaxPrioIdx /\ Submit(claim_id, <<"A", " ">>, <<"d">>, AllOk(triage))
    \/ \E cid \in PriorityIds : Delete(cid)
    \/ StartNewClaim

SpecPriority == Init /\ [][NextPriority]_vars

----------------------------------------------------------------------------
(* Claims *)

\* the step just taken was a submission
Submitted == ui'.op = "submit"

\* a text that is empty or made of white space only
Blank(s) == \A i \in 1..Len(s) : s[i] \in {" ", "\n"}

\* the form of the submission carried a name and a description
FilledIn(given) == ~Blank(given.customer_name) /\ ~Blank(given.description)

\* the provider raised on one of the four agent calls of the submission
SomeAgentFails(given) == \E s \in StageSet : given.resps[s] = Raise

\* C1: when any of the four agent calls of a submission fails, the
\* submission ends in the exception and the store is as it was: the same
\* records under the same ids with the same fields, and the creation counter
\* (and the set of indices handed out) is not advanced.
C1_FailedRunLeavesStoreUnchanged ==
    [][(Submitted /\ FilledIn(ui'.input) /\ SomeAgentFails(ui'.input))
        => /\ ui'.outcome = "exception"
           /\ claims_db' = claims_db
           /\ next_idx' = next_idx
           /\ issued' = issued]_vars

\* C1 witness: a submission for an id that is in the store failed at its
\* last agent call (settlement), after three calls that succeeded
C1_Witness ==
    /\ ui.op = "submit" /\ ui.outcome = "exception" /\ ui.calls = 4
    /\ ui.input.resps.settlement = Raise
    /\ ui.target \in Keys(claims_db)

\* C2: every record of the store has four non-empty texts (a provider answer
\* without usable text is surfaced as a failure, never stored as empty text).
C2_NoEmptyTextStored ==
    \A r \in Records(claims_db) :
        r.triage # << >> /\ r.damage # << >> /\ r.evidence # << >> /\ r.settlement # << >>

\* C3: a submission whose name or description is empty or blank is rejected
\* with the form error, no agent call is made, and the store, the creation
\* counter, the active-claim pointer and the message draft are unchanged.
C3_BlankFormRejectedWithoutEffect ==
    [][(Submitted /\ ~FilledIn(ui'.input))
        => /\ ui'.outcome = "error"
           /\ ui'.calls = 0
           /\ UNCHANGED <<claims_db, next_idx, issued, active_claim_id,
                          customer_msg, send_status>>]_vars

\* C3 witness: a submission with a blank (not empty) name was rejected while
\* the store held a record
C3_Witness ==
    /\ ui.op = "submit" /\ ui.outcome = "error"
    /\ ui.input.customer_name = <<" ">>
    /\ ~Blank(ui.input.description)
    /\ claims_db # << >>

\* C4: the index of a newly created record is greater than every index
\* handed out before (to records still stored, deleted or overwritten), and
\* no two records of the store share an index.
C4_CreatedIdxNeverReused ==
    /\ [](\A i, j \in 1..Len(claims_db) :
            i # j => claims_db[i].created_idx # claims_db[j].created_idx)
    /\ [][(Submitted /\ ui'.outcome = "success")
            => /\ ui'.target \in Keys(claims_db')
               /\ \A k \in issued : DictGet(claims_db', ui'.target).created_idx > k
               /\ \A r \in Records(claims_db) :
                    DictGet(claims_db', ui'.target).created_idx > r.created_idx]_vars

\* C4 witness: a record was created with index 4 after the records with the
\* indices 2 and 3 had left the store (deleted or overwritten)
C4_Witness ==
    /\ ui.op = "submit" /\ ui.outcome = "success"
    /\ Len(claims_db) = 2
    /\ issued = {1, 2, 3, 4}
    /\ {r.created_idx : r \in Records(claims_db)} = {1, 4}

\* the listing with the record of claim id cid left out
Without(list, cid) == LET keep(r) == r.id # cid IN SelectSeq(list, keep)

\* C5: the history listing holds exactly the stored records, each once, from
\* the highest creation index to the lowest; a delete removes the record and
\* keeps the order of the others; a created record is listed first.
C5_ListingByRecency ==
    /\ [](LET list == get_sorted_claims(claims_db)
          IN  /\ Len(list) = Cardinality(Keys(claims_db))
              /\ Records(list) = Records(claims_db)
              /\ \A i, j \in 1..Len(list) :
                    i < j => list[i].created_idx > list[j].created_idx)
    /\ [][/\ ui'.op = "delete"
              => get_sorted_claims(claims_db')
                    = Without(get_sorted_claims(claims_db), ui'.target)
          /\ (Submitted /\ ui'.outcome = "success")
              => /\ Head(get_sorted_claims(claims_db')).id = ui'.target
                 /\ Tail(get_sorted_claims(claims_db'))
                    = Without(get_sorted_claims(claims_db), ui'.target)]_vars

\* C5 witness: after creating A, B, C, deleting B and creating D the listing
\* is D, C, A
C5_Witness ==
    /\ ui.op = "submit" /\ ui.outcome = "success"
    /\ issued = {1, 2, 3, 4}
    /\ LET list == get_sorted_claims(claims_db)
       IN  /\ Len(list) = 3
           /\ list[1].created_idx = 4 /\ list[1].id = ui.target
           /\ list[2].created_idx = 3
           /\ list[3].created_idx = 1

\* the record a submission that ran through is to store
Expected(claim_id, given, idx) ==
    [id |-> claim_id,
     customer_name |-> given.customer_name,
     description |-> given.description,
     status |-> "Reviewing",
     priority |-> extract_priority_label(call_groq(given.resps.triage).text),
     triage |-> call_groq(given.resps.triage).text,
     damage |-> call_groq(given.resps.damage).text,
     evidence |-> call_groq(given.resps.evidence).text,
     settlement |-> call_groq(given.resps.settlement).text,
     created_idx |-> idx]

\* C6: a submission, with a filled-in form and no failing agent call, for a
\* claim id that is already stored succeeds and replaces the record: the
\* store has as many records as before, one of them under that id, with the
\* content of this submission, status Reviewing and a fresh creation index;
\* the other records are as they were.
C6_DuplicateIdOverwrites ==
    [][(/\ Submitted /\ FilledIn(ui'.input) /\ ~SomeAgentFails(ui'.input)
        /\ ui'.target \in Keys(claims_db))
        => /\ ui'.outcome = "success"
           /\ Len(claims_db') = Len(claims_db)
           /\ Cardinality({i \in 1..Len(claims_db') : claims_db'[i].id = ui'.target}) = 1
           /\ DictGet(claims_db', ui'.target) = Expected(ui'.target, ui'.input, next_idx + 1)
           /\ DictGet(claims_db', ui'.target).created_idx
                > DictGet(claims_db, ui'.target).created_idx
           /\ \A r \in Records(claims_db) : r.id # ui'.target => r \in Records(claims_db')]_vars

\* C6 witness: two records are stored and the one that entered the store
\* first carries the newest index, 3: it was created again under its id,
\* with the low-priority answer
C6_Witness ==
    /\ ui.op = "submit" /\ ui.outcome = "success"
    /\ Len(claims_db) = 2
    /\ claims_db[1].id = ui.target
    /\ claims_db[1].created_idx = 3 /\ claims_db[2].created_idx = 2
    /\ claims_db[1].priority = "LOW"
    /\ claims_db[2].status = "Completed"

\* C7: a status button changes nothing of the store but the status of the
\* open record; and along every step a record that stays in the store (same
\* id, same creation index) keeps its priority, its four texts and every
\* other field except the status.
C7_StatusChangeTouchesOnlyStatus ==
    [][/\ ui'.op \in {"save", "complete"}
            => /\ Len(claims_db') = Len(claims_db)
               /\ \A i \in 1..Len(claims_db) :
                    IF claims_db[i].id = ui'.target
                    THEN claims_db'[i] = [claims_db[i] EXCEPT !.status = claims_db'[i].status]
                    ELSE claims_db'[i] = claims_db[i]
       /\ \A r \in Records(claims_db), q \in Records(claims_db') :
            (r.id = q.id /\ r.created_idx = q.created_idx)
                => q = [r EXCEPT !.status = q.status]]_vars

\* C7 witness: the open record was marked Completed while another record,
\* still Reviewing, was in the store
C7_Witness ==
    /\ ui.op = "complete" /\ ui.input.status = "Reviewing"
    /\ Len(claims_db) = 2
    /\ DictGet(claims_db, ui.target).status = "Completed"
    /\ DictGet(claims_db, ui.target).priority = "HIGH"
    /\ \E r \in Records(claims_db) : r.id # ui.target /\ r.status = "Reviewing"

\* C8 as stated: the save button leaves the status of the open record as it
\* was, be it Reviewing or Completed.
C8_SaveKeepsStatus ==
    [][ui'.op = "save"
        => DictGet(claims_db', ui'.target).status = DictGet(claims_db, ui'.target).status]_vars

\* C8 amended: the save button sets the status of the open record to
\* Reviewing: a record in Reviewing keeps its status, a Completed record
\* goes back to Reviewing.
C8_SaveSetsReviewing ==
    [][ui'.op = "save"
        => /\ ui'.target \in Keys(claims_db) /\ ui'.target \in Keys(claims_db')
           /\ DictGet(claims_db', ui'.target).status = "Reviewing"
           /\ ui'.input.status = DictGet(claims_db, ui'.target).status]_vars

\* C8 witness: the save button was pressed on a record that was Completed
C8_Witness ==
    /\ ui.op = "save" /\ ui.input.status = "Completed"
    /\ DictGet(claims_db, ui.target).status = "Reviewing"

\* C9: a read of the record of a claim id that is not in the store ends in
\* an error.
C9_MissingIdFailsExplicitly ==
    (ui.op = "view" /\ ui.target # None /\ ui.target \notin Keys(claims_db))
        => ui.outcome \in {"error", "exception"}

\* the upper-case form of a keyword letter
UpperOf(c) ==
    CASE c = "h" -> "H" [] c = "i" -> "I" [] c = "g" -> "G" [] c = "m" -> "M"
      [] c = "e" -> "E" [] c = "d" -> "D" [] c = "u" -> "U" [] c = "l" -> "L"
      [] c = "o" -> "O" [] c = "w" -> "W"

\* txt holds the keyword at some place, each letter in either case
Mentions(txt, word) ==
    \E at \in 0..(Len(txt) - Len(word)) :
        \A j \in 1..Len(word) : txt[at + j] \in {word[j], UpperOf(word[j])}

\* the label the triage text is to get
Label(txt) ==
    CASE Mentions(txt, kw_high) -> "HIGH"
      [] ~Mentions(txt, kw_high) /\ Mentions(txt, kw_medium) -> "MEDIUM"
      [] ~Mentions(txt, kw_high) /\ ~Mentions(txt, kw_medium) /\ Mentions(txt, kw_low) -> "LOW"
      [] OTHER -> "UNSPECIFIED"

\* C10: the priority of a stored record is HIGH when its triage text holds
\* "high" in any letter case, MEDIUM when it holds "medium" and not "high",
\* LOW when it holds "low" and neither of the two, UNSPECIFIED when it holds
\* none; and the triage text is the triage agent's answer of the submission.
C10_PriorityFromTriageText ==
    /\ \A r \in Records(claims_db) : r.priority = Label(r.triage)
    /\ (ui.op = "submit" /\ ui.outcome = "success")
        => /\ ui.target \in Keys(claims_db)
           /\ DictGet(claims_db, ui.target).triage = Strip(ui.input.resps.triage.text)

\* C10 witness: a triage text "LowHigh", with "low" before "high" and both
\* in mixed case, was stored with priority HIGH
C10_Witness ==
    /\ ui.op = "submit" /\ ui.outcome = "success"
    /\ \E r \in Records(claims_db) :
        /\ r.triage = <<"L", "o", "w", "H", "i", "g", "h">>
        /\ r.priority = "HIGH"

\* C11: the active-claim pointer is None or the id of a stored record, so
\* the Workspace shows the new-claim form or the review panel of a record.
C11_ActivePointerValid ==
    /\ active_claim_id = None \/ active_claim_id \in Keys(claims_db)
    /\ active_claim_id = None \/ PanelShown

====
